---- MODULE Spec2Model ----
(***************************************************************************)
(* A model of the sliding-log rate limiter of src/src/rate_limiter.rs.     *)
(*                                                                         *)
(* The limiter keeps, per RequestKey, a VecDeque of the timestamps of the  *)
(* admitted requests (self.requests).  try_add_request(&mut self, address) *)
(* looks the key up and clones its queue, reads the clock through the      *)
(* clock's Mutex, and then admits or denies.  The exclusive borrow         *)
(* `&mut self` lets one caller at a time be inside try_add_request; the    *)
(* clock is a separate shared object (Arc<Mutex<C>>) that other threads    *)
(* may advance, or poison, while a call is between its lookup and its      *)
(* clock read.  A call is therefore two steps of a thread: Begin (the      *)
(* borrow and the lookup of line 106) and Complete (everything from the    *)
(* clock read to the return).                                              *)
(***************************************************************************)
EXTENDS Integers, Sequences, FiniteSets, TLC

VARIABLES
    limit,          \* RateLimiter.limit  (usize, fixed at construction)
    ticks,          \* RateLimiter.ticks  (usize, fixed at construction)
    clock,          \* FixedClock.value, the clock behind Arc<Mutex<C>>
    clockPoisoned,  \* whether the clock's Mutex is poisoned
    requests,       \* RateLimiter.requests: HashMap<RequestKey, VecDeque<RequestInfo>>
    pc,             \* per thread: "idle" or "called" (inside try_add_request)
    local,          \* per thread: the locals of its call in progress
    last,           \* the call that returned in the step into this state (NoCall if none)
    calls,          \* per key: calls decided (Allow or Deny) at the current clock value
    allows,         \* per key: how many of those returned Allow
    fresh,          \* per key: the first of those found no stored entry for the key
    reference,      \* the ledger of the reference algorithm, fed the same decided calls
    window,         \* per key: timestamps t of its Allows with t + limit*ticks > clock
    pending         \* per key: the oldest timestamp found by its latest call if that
                    \* call was denied, -1 if the latest decided call was allowed

vars == <<limit, ticks, clock, clockPoisoned, requests, pc, local, last,
          calls, allows, fresh, reference, window, pending>>

(* Bounds of the model. *)
MaxLimit == 2
MaxTicks == 2
MaxClock == 4
MaxCalls == 3

Keys == {"1.1.1.1", "2.2.2.2"}
Threads == {"t1", "t2"}

Allow == "Allow"
Deny == "Deny"
ThreadingProblem == "ThreadingProblem"

(* HashMap::new(): no key present. *)
EmptyMap == [k \in {} |-> <<>>]

NoLocal == [address |-> "none", found |-> FALSE, reqs |-> <<>>]
NoCall == [thread |-> "none", key |-> "none", response |-> "none", now |-> 0,
           found |-> FALSE, reqs |-> <<>>, before |-> EmptyMap,
           evicted |-> 0, stored |-> FALSE, expected |-> "none",
           pending |-> -1]

(* HashMap::insert(address, queue): adds the key or replaces its queue. *)
insert(map, address, queue) ==
    [k \in (DOMAIN map) \cup {address} |-> IF k = address THEN queue ELSE map[k]]

(* VecDeque::front(): None (<<>>) or Some(first) (<<first>>). *)
front(queue) == IF queue = <<>> THEN <<>> ELSE <<Head(queue)>>

(* VecDeque::pop_front(). *)
pop_front(queue) == IF queue = <<>> THEN <<>> ELSE Tail(queue)

(* Mutant of push_back: the new entry goes to the front. *)
push_front(queue, x) == <<x>> \o queue

(* VecDeque::push_back(x). *)
push_back(queue, x) == Append(queue, x)

(* Mutant of can_be_discarded: the window is `limit` ticks, whatever      *)
(* self.ticks is.                                                          *)
can_be_discarded_ignoring_ticks(frontOpt, now) ==
    IF frontOpt = <<>> THEN FALSE
    ELSE frontOpt[1] + limit <= now

(* Mutant of can_be_discarded: the comparison made strict. *)
can_be_discarded_strict(frontOpt, now) ==
    IF frontOpt = <<>> THEN FALSE
    ELSE frontOpt[1] + (limit * ticks) < now

(* fn can_be_discarded(&self, front: Option<&RequestInfo>, now: i64) -> bool *)
can_be_discarded(frontOpt, now) ==
    IF frontOpt = <<>> THEN FALSE
    ELSE frontOpt[1] + (limit * ticks) <= now

(* Mutant of discard_loop: `if` for `while`, one entry popped at most. *)
discard_once(queue, now) ==
    IF can_be_discarded(front(queue), now) THEN pop_front(queue) ELSE queue

(* while self.can_be_discarded(requests.front(), now) { requests.pop_front(); } *)
RECURSIVE discard_loop(_, _)
discard_loop(queue, now) ==
    IF can_be_discarded(front(queue), now)
    THEN discard_loop(pop_front(queue), now)
    ELSE queue

(* The functions below take self.requests as `map` and return the response *)
(* with the map they leave in self.requests; `evicted` (entries popped) and *)
(* `stored` (whether self.requests.insert ran) describe what they did.     *)

(* fn check_if_we_have_free_slot(&mut self, address, requests, request_info) *)
check_if_we_have_free_slot(map, address, reqs, now) ==
    LET kept == discard_loop(reqs, now)
        updated == Len(kept) < Len(reqs)
    IN  IF Len(kept) < limit
        THEN [response |-> Allow,
              requests |-> insert(map, address, push_back(kept, now)),
              evicted |-> Len(reqs) - Len(kept), stored |-> TRUE]
        ELSE [response |-> Deny,
              requests |-> IF updated THEN insert(map, address, kept) ELSE map,
              evicted |-> Len(reqs) - Len(kept), stored |-> updated]

(* The number of timestamps stored in the whole map. *)
RECURSIVE stored_in(_, _)
stored_in(map, keys) ==
    IF keys = {} THEN 0
    ELSE LET k == CHOOSE x \in keys : TRUE
         IN  Len(map[k]) + stored_in(map, keys \ {k})

(* Mutant of add_to_existing_requests: the capacity test counts the        *)
(* entries of every key, not those of the requesting key.                  *)
add_to_existing_requests_global_count(map, address, reqs) ==
    IF clockPoisoned
    THEN [response |-> ThreadingProblem, requests |-> map,
          evicted |-> 0, stored |-> FALSE]
    ELSE LET now == clock
         IN  IF stored_in(map, DOMAIN map) < limit
             THEN [response |-> Allow,
                   requests |-> insert(map, address, push_back(reqs, now)),
                   evicted |-> 0, stored |-> TRUE]
             ELSE check_if_we_have_free_slot(map, address, reqs, now)

(* Mutant of add_to_existing_requests: the capacity test off by one. *)
add_to_existing_requests_off_by_one(map, address, reqs) ==
    IF clockPoisoned
    THEN [response |-> ThreadingProblem, requests |-> map,
          evicted |-> 0, stored |-> FALSE]
    ELSE LET now == clock
         IN  IF Len(reqs) <= limit
             THEN [response |-> Allow,
                   requests |-> insert(map, address, push_back(reqs, now)),
                   evicted |-> 0, stored |-> TRUE]
             ELSE check_if_we_have_free_slot(map, address, reqs, now)

(* fn add_to_existing_requests(&mut self, address, requests) *)
add_to_existing_requests(map, address, reqs) ==
    IF clockPoisoned
    THEN [response |-> ThreadingProblem, requests |-> map,
          evicted |-> 0, stored |-> FALSE]
    ELSE LET now == clock
         IN  IF Len(reqs) < limit
             THEN [response |-> Allow,
                   requests |-> insert(map, address, push_back(reqs, now)),
                   evicted |-> 0, stored |-> TRUE]
             ELSE check_if_we_have_free_slot(map, address, reqs, now)

(* Mutant of add_request_for_new_source: a capacity test, off by one. *)
add_request_for_new_source_checked(map, address) ==
    IF clockPoisoned
    THEN [response |-> ThreadingProblem, requests |-> map,
          evicted |-> 0, stored |-> FALSE]
    ELSE LET now == clock
         IN  IF 1 < limit
             THEN [response |-> Allow,
                   requests |-> insert(map, address, <<now>>),
                   evicted |-> 0, stored |-> TRUE]
             ELSE [response |-> Deny, requests |-> map,
                   evicted |-> 0, stored |-> FALSE]

(* Mutant of add_request_for_new_source: the key's queue is created before *)
(* the clock is locked.                                                    *)
add_request_for_new_source_insert_first(map, address) ==
    IF clockPoisoned
    THEN [response |-> ThreadingProblem,
          requests |-> insert(map, address, <<>>),
          evicted |-> 0, stored |-> TRUE]
    ELSE LET now == clock
         IN  [response |-> Allow,
              requests |-> insert(map, address, <<now>>),
              evicted |-> 0, stored |-> TRUE]

(* fn add_request_for_new_source(&mut self, address) *)
add_request_for_new_source(map, address) ==
    IF clockPoisoned
    THEN [response |-> ThreadingProblem, requests |-> map,
          evicted |-> 0, stored |-> FALSE]
    ELSE LET now == clock
         IN  [response |-> Allow,
              requests |-> insert(map, address, <<now>>),
              evicted |-> 0, stored |-> TRUE]

(* self.requests.get(&address), and requests.clone() when it is Some. *)
get(map, address) ==
    IF address \in DOMAIN map
    THEN [address |-> address, found |-> TRUE, reqs |-> map[address]]
    ELSE [address |-> address, found |-> FALSE, reqs |-> <<>>]

(* fn try_add_request(&mut self, address): the dispatch on the lookup. *)
try_add_request(map, address, lookup) ==
    IF lookup.found
    THEN add_to_existing_requests(map, address, lookup.reqs)
    ELSE add_request_for_new_source(map, address)

(* The timestamps of `stamps` still inside the window that ends at `now`. *)
in_window(stamps, now) ==
    SelectSeq(stamps, LAMBDA t : t + limit * ticks > now)

(* The reference algorithm: evict every front entry with                  *)
(* timestamp + limit*ticks <= now, then allow iff fewer than `limit`       *)
(* entries remain; the evicted queue is kept on a Deny as well.            *)
RECURSIVE reference_evict(_, _)
reference_evict(queue, now) ==
    IF queue # <<>> /\ Head(queue) + limit * ticks <= now
    THEN reference_evict(Tail(queue), now)
    ELSE queue

reference_try_add(map, address, now) ==
    LET found == IF address \in DOMAIN map THEN map[address] ELSE <<>>
        kept == reference_evict(found, now)
    IN  IF Len(kept) < limit
        THEN [response |-> Allow,
              requests |-> insert(map, address, Append(kept, now))]
        ELSE [response |-> Deny,
              requests |-> insert(map, address, kept)]

(* Mutant of ExclusiveBorrow: the limiter is shared without exclusion. *)
SharedBorrow == TRUE

(* `&mut self`: a caller enters try_add_request only while no other caller *)
(* is inside it.                                                           *)
ExclusiveBorrow == \A u \in Threads : pc[u] = "idle"

(* RateLimiter::new(clock, limit, ticks) with an empty ledger. *)
Init ==
    /\ limit \in 0..MaxLimit
    /\ ticks \in 0..MaxTicks
    /\ clock = 0
    /\ clockPoisoned = FALSE
    /\ requests = EmptyMap
    /\ pc = [t \in Threads |-> "idle"]
    /\ local = [t \in Threads |-> NoLocal]
    /\ last = NoCall
    /\ calls = [k \in Keys |-> 0]
    /\ allows = [k \in Keys |-> 0]
    /\ fresh = [k \in Keys |-> FALSE]
    /\ reference = EmptyMap
    /\ window = [k \in Keys |-> <<>>]
    /\ pending = [k \in Keys |-> -1]

(* try_add_request, line 106: self.requests.get(&address), and the clone   *)
(* of line 108 when the key is present.                                    *)
Begin(t, address) ==
    /\ pc[t] = "idle"
    /\ ExclusiveBorrow
    /\ calls[address] < MaxCalls
    /\ pc' = [pc EXCEPT ![t] = "called"]
    /\ local' = [local EXCEPT ![t] = get(requests, address)]
    /\ last' = NoCall
    /\ UNCHANGED <<limit, ticks, clock, clockPoisoned, requests,
                   calls, allows, fresh, reference, window, pending>>

(* The rest of try_add_request: the clock read, the decision, the ledger   *)
(* update and the return.                                                  *)
Complete(t) ==
    /\ pc[t] = "called"
    /\ LET address == local[t].address
           out == try_add_request(requests, address, local[t])
           decided == out.response # ThreadingProblem
           ref == reference_try_add(reference, address, clock)
       IN  /\ requests' = out.requests
           /\ last' = [thread |-> t, key |-> address, response |-> out.response,
                       now |-> IF decided THEN clock ELSE 0,
                       found |-> local[t].found, reqs |-> local[t].reqs,
                       before |-> requests,
                       evicted |-> out.evicted, stored |-> out.stored,
                       expected |-> IF decided THEN ref.response ELSE "none",
                       pending |-> pending[address]]
           /\ pending' = IF out.response = Allow
                         THEN [pending EXCEPT ![address] = -1]
                         ELSE IF out.response = Deny /\ local[t].reqs # <<>>
                         THEN [pending EXCEPT ![address] = Head(local[t].reqs)]
                         ELSE pending
           /\ reference' = IF decided THEN ref.requests ELSE reference
           /\ window' = IF out.response = Allow
                        THEN [window EXCEPT ![address] =
                                 in_window(Append(@, clock), clock)]
                        ELSE window
           /\ calls' = IF decided THEN [calls EXCEPT ![address] = @ + 1] ELSE calls
           /\ allows' = IF out.response = Allow
                        THEN [allows EXCEPT ![address] = @ + 1] ELSE allows
           /\ fresh' = IF decided /\ calls[address] = 0
                       THEN [fresh EXCEPT ![address] = (local[t].reqs = <<>>)]
                       ELSE fresh
    /\ pc' = [pc EXCEPT ![t] = "idle"]
    /\ local' = [local EXCEPT ![t] = NoLocal]
    /\ UNCHANGED <<limit, ticks, clock, clockPoisoned>>

(* The clock moves forward (FixedClock.value is set to a later value; the  *)
(* wall clock advances).                                                   *)
SetClock(value) ==
    /\ value > clock
    /\ value <= MaxClock
    /\ clock' = value
    /\ calls' = [k \in Keys |-> 0]
    /\ allows' = [k \in Keys |-> 0]
    /\ fresh' = [k \in Keys |-> FALSE]
    /\ last' = NoCall
    /\ window' = [k \in Keys |-> in_window(window[k], value)]
    /\ UNCHANGED <<limit, ticks, clockPoisoned, requests, pc, local, reference,
                   pending>>

(* A holder of the clock's Mutex panics: the Mutex stays poisoned. *)
PoisonClock ==
    /\ ~clockPoisoned
    /\ clockPoisoned' = TRUE
    /\ last' = NoCall
    /\ UNCHANGED <<limit, ticks, clock, requests, pc, local,
                   calls, allows, fresh, reference, window, pending>>

Next ==
    \/ \E t \in Threads, address \in Keys : Begin(t, address)
    \/ \E t \in Threads : Complete(t)
    \/ \E value \in 0..MaxClock : SetClock(value)
    \/ PoisonClock

Spec == Init /\ [][Next]_vars

(***************************************************************************)
(* Properties.  `last` describes the call that returned in the step into   *)
(* the state: its key, what it found (last.found, last.reqs), the ledger   *)
(* it started from (last.before) and its response.                         *)
(***************************************************************************)
Returned == last.thread # "none"
Decided == last.response \in {Allow, Deny}

(* C1: capacity invariant: in every reachable state, for every key and     *)
(* every configuration (limit >= 0, ticks >= 0), the number of timestamps  *)
(* stored for the key is at most `limit`.                                  *)
C1_CapacityInvariant ==
    \A k \in DOMAIN requests : Len(requests[k]) <= limit

(* C2: zero-limit policy: with limit = 0, every call that returns a        *)
(* decision returns Deny, the first call for a new key included.           *)
C2_ZeroLimitDenies ==
    (limit = 0 /\ Decided) => last.response = Deny

(* C3: same-tick burst: with limit >= 1 and ticks >= 1, while the clock    *)
(* stays at one value and the key had no stored entry at the first call,   *)
(* the n-th decided call for the key returns Allow exactly when            *)
(* n <= limit; so the Allows at that tick number min(calls, limit).        *)
C3_SameTickBurst ==
    (limit >= 1 /\ ticks >= 1) =>
        /\ \A k \in Keys :
              (Decided /\ last.key = k /\ fresh[k]) =>
                  ((last.response = Allow) <=> (calls[k] <= limit))
        /\ \A k \in Keys :
              fresh[k] =>
                  allows[k] = (IF calls[k] <= limit THEN calls[k] ELSE limit)

(* The call after `limit` Allows at one tick is denied. *)
C3_Witness ==
    /\ limit = 2 /\ ticks >= 1
    /\ Decided /\ last.response = Deny
    /\ fresh[last.key] /\ calls[last.key] = limit + 1 /\ allows[last.key] = limit

(* C4: eviction boundary: a call that finds exactly `limit` stored entries *)
(* (limit >= 1), the oldest with timestamp t0, returns Allow if and only   *)
(* if t0 + limit*ticks <= now, and Deny otherwise.                         *)
C4_EvictionBoundary ==
    (limit >= 1 /\ Decided /\ last.found /\ Len(last.reqs) = limit) =>
        ((last.response = Allow) <=>
            (Head(last.reqs) + limit * ticks <= last.now))

(* A full queue is admitted at exactly t0 + limit*ticks. *)
C4_Witness ==
    /\ limit >= 1 /\ ticks >= 1
    /\ Decided /\ last.found /\ Len(last.reqs) = limit
    /\ last.response = Allow
    /\ Head(last.reqs) + limit * ticks = last.now

(* A full queue is denied at t0 + limit*ticks - 1. *)
C4_WitnessDeny ==
    /\ limit >= 1 /\ ticks >= 1
    /\ Decided /\ last.found /\ Len(last.reqs) = limit
    /\ last.response = Deny
    /\ Head(last.reqs) + limit * ticks - 1 = last.now

(* Alternative contents for another key's queue: empty, or one to         *)
(* MaxLimit entries recorded at tick 0 or at the current tick.             *)
AltQueues ==
    {<<>>} \cup {[i \in 1..n |-> v] : n \in 1..MaxLimit, v \in {0, clock}}

(* The ledgers that differ from `map` at most in key b. *)
AltLedgers(map, b) ==
    {[k \in (DOMAIN map) \ {b} |-> map[k]]}
        \cup {insert(map, b, q) : q \in AltQueues}

(* C5: per-key independence: a call for key A leaves every other key B as  *)
(* it was (present or absent, and its queue), and the call's response and  *)
(* A's resulting queue are the same whatever B's queue holds.              *)
C5_PerKeyIndependence ==
    Returned =>
        \A b \in Keys \ {last.key} :
            /\ (b \in DOMAIN requests) <=> (b \in DOMAIN last.before)
            /\ (b \in DOMAIN requests) => requests[b] = last.before[b]
            /\ \A alt \in AltLedgers(last.before, b) :
                  LET out == try_add_request(alt, last.key, get(alt, last.key))
                  IN  /\ out.response = last.response
                      /\ get(out.requests, last.key) = get(requests, last.key)

(* Key A is allowed while another key B is at capacity. *)
C5_Witness ==
    /\ limit >= 1 /\ ticks >= 1
    /\ Returned /\ last.response = Allow /\ last.found
    /\ \E b \in Keys \ {last.key} :
          /\ b \in DOMAIN requests
          /\ Len(requests[b]) = limit
          /\ calls[b] > allows[b]

(* C6: new key admission: with limit >= 1 (and the clock's lock not        *)
(* poisoned), a call for a key with no ledger entry returns Allow and      *)
(* leaves the key's queue equal to <<now>>.                                *)
C6_NewKeyAdmission ==
    (limit >= 1 /\ Returned /\ ~last.found /\ ~clockPoisoned) =>
        /\ last.response = Allow
        /\ last.now = clock
        /\ last.key \in DOMAIN requests
        /\ requests[last.key] = <<last.now>>

(* A new key is admitted at a tick > 0 while another key is stored. *)
C6_Witness ==
    /\ limit >= 1
    /\ Returned /\ ~last.found /\ last.response = Allow
    /\ last.now > 0
    /\ last.before # EmptyMap
    /\ requests[last.key] = <<last.now>>

(* C7: error atomicity: a call that finds the clock's Mutex poisoned       *)
(* returns ThreadingProblem, never Allow or Deny, and leaves the whole     *)
(* ledger as it was before the call; no call that returns the error        *)
(* changes the ledger.                                                     *)
C7_ErrorAtomicity ==
    /\ (Returned /\ clockPoisoned) =>
          (last.response = ThreadingProblem /\ requests = last.before)
    /\ (Returned /\ last.response = ThreadingProblem) =>
          (clockPoisoned /\ requests = last.before)

(* Calls for a new key and for a stored key both return the error. *)
C7_Witness ==
    /\ Returned /\ clockPoisoned
    /\ last.response = ThreadingProblem
    /\ ~last.found
    /\ requests # EmptyMap
    /\ \E k \in DOMAIN requests : Len(requests[k]) >= 1

(* C8: serialized admission: at most one caller is inside try_add_request *)
(* at a time, so each call's clock read, eviction, decision and ledger     *)
(* update form one step; and among the calls of all threads for one key at *)
(* one tick (limit >= 1, ticks >= 1, the key without stored entries at the *)
(* first of them), at most `limit` return Allow.                           *)
C8_SerializedAdmission ==
    /\ Cardinality({t \in Threads : pc[t] = "called"}) <= 1
    /\ \A t \in Threads :
          pc[t] = "called" => local[t] = get(requests, local[t].address)
    /\ (limit >= 1 /\ ticks >= 1) =>
          \A k \in Keys : fresh[k] => allows[k] <= limit

(* A thread is inside a call for a key for which, at this tick, more than *)
(* `limit` calls were decided and `limit` of them were allowed.            *)
C8_Witness ==
    /\ limit >= 1 /\ ticks >= 1
    /\ \E t \in Threads, k \in Keys :
          /\ pc[t] = "called" /\ local[t].address = k
          /\ fresh[k] /\ allows[k] = limit /\ calls[k] > limit

(* The suffixes of a queue. *)
Suffixes(queue) ==
    {SubSeq(queue, n + 1, Len(queue)) : n \in 0..Len(queue)}

(* C10: monotone eviction: a call for a key turns the key's stored queue   *)
(* into a suffix of the queue it found, followed by `now` exactly when the *)
(* call is allowed; entries dropped from the front do not come back.       *)
C10_MonotoneEviction ==
    Returned =>
        LET after == get(requests, last.key).reqs
        IN  /\ \E kept \in Suffixes(last.reqs) :
                  /\ Len(kept) = Len(last.reqs) - last.evicted
                  /\ after = IF last.response = Allow
                             THEN Append(kept, last.now) ELSE kept
            /\ last.response # Allow =>
                  (last.key \in DOMAIN requests <=> last.found)

(* A call evicts the oldest entry, keeps a newer one and appends now. *)
C10_Witness ==
    /\ Returned /\ last.response = Allow
    /\ last.evicted >= 1
    /\ Len(last.reqs) > last.evicted
    /\ requests[last.key] =
          Append(SubSeq(last.reqs, last.evicted + 1, Len(last.reqs)), last.now)
    /\ requests[last.key][1] < last.now

(* C11: decision equivalence: for every configuration and every sequence  *)
(* of calls under a non-decreasing clock, each decided call returns the    *)
(* decision the reference algorithm returns for it.                        *)
C11_DecisionEquivalence ==
    Decided => last.response = last.expected

(* The same for limit >= 1 only. *)
C11_EquivalenceForPositiveLimit ==
    (limit >= 1 /\ Decided) => last.response = last.expected

(* C12: sliding-window bound: with limit >= 1 and ticks >= 1, for every   *)
(* key and every tick t, at most `limit` calls for the key returned Allow  *)
(* with a timestamp in (t - limit*ticks, t].  window[k] holds the Allows   *)
(* inside the window that ends at the current clock value; a window that   *)
(* ends at a tick the clock skipped holds a subset of one of these.        *)
C12_SlidingWindowBound ==
    (limit >= 1 /\ ticks >= 1) =>
        \A k \in Keys :
            /\ Len(window[k]) <= limit
            /\ \A i \in 1..Len(window[k]) :
                  /\ window[k][i] <= clock
                  /\ window[k][i] > clock - limit * ticks

(* A window is filled with Allows of different ticks, the first of them    *)
(* after the key's earlier entries had left the window.                    *)
C12_Witness ==
    /\ limit = 2 /\ ticks = 1
    /\ \E k \in Keys :
          /\ Len(window[k]) = limit
          /\ window[k][1] >= 2
          /\ window[k][1] < window[k][2]
          /\ last.key = k /\ last.response = Deny

(* Whether a timestamp is stale at `now`: outside the window. *)
Stale(t, now) == t + limit * ticks <= now

(* The entries a call found and kept: the found queue less the evicted     *)
(* front entries.                                                          *)
KeptByLast == SubSeq(last.reqs, last.evicted + 1, Len(last.reqs))

(* C13 as claimed, in the configurations with limit >= 1 and ticks >= 1:   *)
(* after any decided call for a key at tick `now`, the key's stored queue  *)
(* holds no entry with timestamp + limit*ticks <= now.                     *)
C13_EvictionOnEveryRequest ==
    (limit >= 1 /\ ticks >= 1 /\ Decided) =>
        LET after == get(requests, last.key).reqs
        IN  \A i \in 1..Len(after) : ~Stale(after[i], last.now)

(* C13 as amended: a decided call that finds at least `limit` entries for  *)
(* the key leaves none of the entries it found that are stale at `now`;    *)
(* a call that finds fewer than `limit` entries evicts nothing and appends *)
(* `now` to the queue it found, stale entries included.                    *)
C13_EvictionWhenFull ==
    (Decided /\ last.found) =>
        /\ Len(last.reqs) >= limit =>
              \A i \in 1..Len(KeptByLast) : ~Stale(KeptByLast[i], last.now)
        /\ Len(last.reqs) < limit =>
              /\ last.evicted = 0
              /\ requests[last.key] = Append(last.reqs, last.now)

(* A call on a full queue evicts a stale entry and keeps a newer one. *)
C13_Witness ==
    /\ limit = 2 /\ ticks = 1
    /\ Decided /\ last.found /\ Len(last.reqs) = limit /\ last.evicted = 1

(* A call with a free slot leaves a stale entry in the queue. *)
C13_WitnessStaleKept ==
    /\ limit = 2 /\ ticks = 1
    /\ Decided /\ last.found /\ Len(last.reqs) < limit
    /\ Stale(requests[last.key][1], last.now)

(* Whether a queue is sorted non-decreasing from front to back. *)
Sorted(queue) ==
    \A i \in 1..Len(queue) : \A j \in i..Len(queue) : queue[i] <= queue[j]

(* C14: sorted queue: under the non-decreasing clock every stored queue is *)
(* sorted non-decreasing by timestamp, so the eviction loop, run at the    *)
(* current or any later tick, stops with no evictable entry behind the     *)
(* front it stopped at.                                                    *)
C14_SortedQueue ==
    \A k \in DOMAIN requests :
        /\ Sorted(requests[k])
        /\ \A now \in clock..MaxClock :
              LET kept == discard_loop(requests[k], now)
              IN  \A i \in 1..Len(kept) : ~Stale(kept[i], now)

(* A queue holds entries of two ticks, the older one evictable now and     *)
(* the newer one not.                                                      *)
C14_Witness ==
    /\ limit >= 2 /\ ticks >= 1
    /\ \E k \in DOMAIN requests :
          /\ Len(requests[k]) = 2
          /\ requests[k][1] < requests[k][2]
          /\ Stale(requests[k][1], clock)
          /\ ~Stale(requests[k][2], clock)

(* The safety part of C15: with limit >= 1, once a call for a key is   *)
(* denied while the key's oldest stored timestamp is t0 (pending = t0),    *)
(* the key's queue stays full with t0 at its front, every later decided    *)
(* call for the key at a tick < t0 + limit*ticks is denied, and the first  *)
(* one at a tick >= t0 + limit*ticks is allowed.                           *)
C15_RecoveryAfterDenial ==
    limit >= 1 =>
        /\ \A k \in Keys :
              pending[k] # -1 =>
                  /\ k \in DOMAIN requests
                  /\ Len(requests[k]) = limit
                  /\ Head(requests[k]) = pending[k]
        /\ (Decided /\ last.pending # -1) =>
              ((last.response = Allow) <=>
                  (last.now >= last.pending + limit * ticks))

(* A key denied at two different ticks is allowed at exactly               *)
(* t0 + limit*ticks.                                                       *)
C15_Witness ==
    /\ limit >= 1 /\ ticks = 2
    /\ Decided /\ last.pending # -1
    /\ last.response = Allow
    /\ last.now = last.pending + limit * ticks
    /\ last.pending > 0

(* A key denied before is denied again at a later tick < t0 + limit*ticks. *)
C15_WitnessDeniedAgain ==
    /\ limit >= 1 /\ ticks >= 1
    /\ Decided /\ last.pending # -1
    /\ last.response = Deny
    /\ last.now > last.pending
    /\ calls[last.key] = 1

(* The premises of the last clause of C15 as fairness: the clock keeps     *)
(* advancing (up to MaxClock), every key keeps requesting, and a call that *)
(* has begun returns.                                                      *)
LiveSpec ==
    /\ Spec
    /\ WF_vars(\E value \in 0..MaxClock : SetClock(value))
    /\ \A k \in Keys : SF_vars(\E t \in Threads : Begin(t, k))
    /\ \A t \in Threads : WF_vars(Complete(t))

(* The last clause of C15: a key denied with oldest timestamp t0 is eventually   *)
(* allowed again (the model's clock must be able to reach                  *)
(* t0 + limit*ticks), unless the clock's Mutex is poisoned, after which    *)
(* every call returns the error.                                           *)
C15_EventuallyAllowed ==
    \A k \in Keys :
        (limit >= 1 /\ pending[k] # -1
            /\ pending[k] + limit * ticks <= MaxClock)
        ~> (pending[k] = -1 \/ clockPoisoned)

(* C15: recovery after denial: with limit >= 1 under the non-decreasing   *)
(* clock, a key denied while its oldest stored timestamp is t0 is denied   *)
(* at every tick < t0 + limit*ticks and allowed by its first call at a     *)
(* tick >= t0 + limit*ticks; and if the clock keeps advancing and the key  *)
(* keeps requesting, it is eventually allowed again.                       *)
C15_Recovery ==
    /\ []C15_RecoveryAfterDenial
    /\ C15_EventuallyAllowed

(* HashMap without the key. *)
without(map, address) == [k \in (DOMAIN map) \ {address} |-> map[k]]

(* C16: absent key and empty queue are decision-equivalent: in every       *)
(* reachable state in which a key is present with an empty queue, a call   *)
(* for the key returns the same response and leaves the same queue as it   *)
(* would if the key were absent from the ledger.                           *)
C16_AbsentEqualsEmpty ==
    \A k \in DOMAIN requests :
        requests[k] = <<>> =>
            LET present == try_add_request(requests, k, get(requests, k))
                gone == without(requests, k)
                absent == try_add_request(gone, k, get(gone, k))
            IN  /\ present.response = absent.response
                /\ get(present.requests, k).reqs = get(absent.requests, k).reqs

(* A key present with an empty queue is reachable only with limit = 0. *)
C16_EmptyQueueOnlyWithZeroLimit ==
    (\E k \in DOMAIN requests : requests[k] = <<>>) => limit = 0

(* C17: Deny is a no-op: with limit >= 1, every call that returns Deny     *)
(* leaves the whole ledger, the requesting key's queue included, exactly   *)
(* as it was; a Deny that stores a shortened queue back (the `updated`     *)
(* branch) happens only with limit = 0.                                    *)
C17_DenyIsNoOp ==
    /\ (limit >= 1 /\ Returned /\ last.response = Deny) =>
          /\ requests = last.before
          /\ last.found
          /\ requests[last.key] = last.reqs
          /\ last.evicted = 0
          /\ ~last.stored
    /\ (Returned /\ last.response = Deny /\ (last.stored \/ last.evicted > 0)) =>
          limit = 0

C17_Witness ==
    /\ limit >= 1
    /\ Returned /\ last.response = Deny
    /\ Len(last.reqs) = limit
    /\ last.now > Head(last.reqs)

(* The `updated` Deny branch is taken with limit = 0. *)
C17_WitnessUpdatedDeny ==
    /\ limit = 0
    /\ Returned /\ last.response = Deny
    /\ last.stored /\ last.evicted > 0
    /\ requests # last.before

(* C18: zero-width window: a call evicts an entry recorded at the call's   *)
(* own tick only when limit * ticks = 0; and with ticks = 0 and            *)
(* limit >= 1 every call that reaches a decision returns Allow.            *)
C18_ZeroWidthWindow ==
    /\ (Decided /\ \E i \in 1..last.evicted : last.reqs[i] = last.now) =>
          limit * ticks = 0
    /\ (ticks = 0 /\ limit >= 1 /\ Decided) => last.response = Allow

C18_Witness ==
    /\ ticks = 0 /\ limit >= 1
    /\ Decided /\ last.response = Allow
    /\ last.evicted >= 1
    /\ last.reqs[last.evicted] = last.now
    /\ Len(last.reqs) = limit

====
